---- MODULE Spec2Model ----
(***************************************************************************)
(* The three command-line utilities of dev-info/marine_analysis/scripts:   *)
(* check_env.py, check_data.py and smoke_iform.py.  One process runs one   *)
(* utility against a file system and a Python environment; the utility may *)
(* be invoked again on the state the previous invocation left behind.      *)
(***************************************************************************)
EXTENDS Integers, Sequences, FiniteSets, TLC

VARIABLES
    tool,       \* which script the process runs
    argv,       \* the set of command-line flags given
    pyenv,      \* the Python environment: modules that fail to import, where virocon lives
    fs,         \* the file system: file name -> content
    fs0,        \* the file system as the current invocation found it
    lib,        \* how the external libraries answer for this input (fit, contour, file writes)
    pc,         \* position of the process
    trace,      \* the operations the current invocation has performed, in order
    stdout,     \* the payloads the current invocation has printed
    exit_code,  \* <<>> while running, <<n>> once the process has ended
    locals,     \* local variables of smoke_iform.run between its steps
    history     \* what earlier invocations printed, returned and left on disk

vars == <<tool, argv, pyenv, fs, fs0, lib, pc, trace, stdout, exit_code, locals, history>>

(***************************************************************************)
(* Bounds of the model.                                                    *)
(***************************************************************************)
MaxRuns == 2
MaxBlocks == 2
MaxRows == 3
MaxPoints == 2

(***************************************************************************)
(* Values.  Python's None is the empty sequence, a present value x is <<x>>.*)
(***************************************************************************)
None == <<>>
Some(x) == <<x>>

\* The outcome of a call: a returned value or a raised exception, with the
\* operations performed up to that point.
Return(v, ev) == [ok |-> TRUE, val |-> v, ev |-> ev]
Raise(e, ev) == [ok |-> FALSE, exc |-> e, ev |-> ev]

Absent == [kind |-> "absent"]
Dir == [kind |-> "dir"]
File(d) == [kind |-> "file", data |-> d]
is_file(name) == fs[name].kind = "file"

FileNames ==
    {"paths.yaml", "runtime.yaml", "metocean.csv", "current.csv",
     "out", "out/iform_wind10_hs_coords.csv", "out/iform_wind10_hs_plot.png"}

\* YAML documents: unparsable text, a root that is not a mapping, a mapping.
YamlInvalid == [t |-> "invalid"]
YamlScalar == [t |-> "scalar"]
YamlMap(m) == [t |-> "map", m |-> m]

load_yaml(path) ==
    IF fs[path].kind = "absent" THEN Raise("FileNotFoundError", <<"open:" \o path>>)
    ELSE IF fs[path].kind = "dir" THEN Raise("IsADirectoryError", <<"open:" \o path>>)
    ELSE IF fs[path].data.t = "map" THEN Return(fs[path].data.m, <<"open:" \o path>>)
    ELSE IF fs[path].data.t = "scalar" THEN Raise("ValueError", <<"open:" \o path>>)
    ELSE Raise("YAMLError", <<"open:" \o path>>)

(***************************************************************************)
(* Paths are sequences of components.  resolve() removes "." and ".."      *)
(* (the modelled file system has no symbolic links); parents are the       *)
(* proper prefixes, the root <<>> included.                                *)
(***************************************************************************)
RECURSIVE resolve_from(_, _)
resolve_from(done, rest) ==
    IF rest = <<>> THEN done
    ELSE IF Head(rest) = "." THEN resolve_from(done, Tail(rest))
    ELSE IF Head(rest) = ".."
         THEN resolve_from(IF done = <<>> THEN done ELSE SubSeq(done, 1, Len(done) - 1),
                           Tail(rest))
    ELSE resolve_from(Append(done, Head(rest)), Tail(rest))

resolve(p) == resolve_from(<<>>, p)

parents(p) == {SubSeq(p, 1, n) : n \in 0..(Len(p) - 1)}

(***************************************************************************)
(* Command line.  Each parser has required flags; check_data also has a    *)
(* required mutually exclusive group.  A rejected command line ends the    *)
(* process inside parse_args() with status 2 and a usage text on stderr.   *)
(***************************************************************************)
Flags == {"--paths", "--runtime", "--quick", "--full"}

parse_args(t, given) ==
    CASE t = "check_env" -> given = {"--paths"}
      [] t = "check_data" ->
            /\ "--paths" \in given
            /\ "--runtime" \notin given
            /\ Cardinality(given \cap {"--quick", "--full"}) = 1
      [] t = "smoke_iform" -> given = {"--paths", "--runtime"}

\* The modules each script imports at module level, before main() is called.
top_level_imports(t) ==
    CASE t = "check_env" -> {"yaml"}
      [] t = "check_data" -> {"pandas", "yaml"}
      [] t = "smoke_iform" -> {"matplotlib", "numpy", "pandas", "yaml", "virocon"}

(***************************************************************************)
(* check_env.py                                                            *)
(***************************************************************************)
module_names == <<"virocon", "numpy", "pandas", "scipy", "sklearn", "matplotlib", "yaml">>

\* statuses is the dict in insertion order, as <<name, status>> pairs.
RECURSIVE check_imports_loop(_, _, _, _)
check_imports_loop(names, statuses, imported, ev) ==
    IF names = <<>> THEN [statuses |-> statuses, imported |-> imported, ev |-> ev]
    ELSE LET name == Head(names) IN
         IF name \in pyenv.broken
         THEN check_imports_loop(Tail(names),
                  Append(statuses, <<name, [ok |-> FALSE, error |-> "ModuleNotFoundError"]>>),
                  imported, Append(ev, "import:" \o name))
         ELSE check_imports_loop(Tail(names),
                  Append(statuses, <<name, [ok |-> TRUE]>>),
                  imported \cup {name}, Append(ev, "import:" \o name))

check_imports(names) == check_imports_loop(names, <<>>, {}, <<>>)

all_ok(statuses) == \A i \in 1..Len(statuses) : statuses[i][2].ok

\* success without the test of where virocon was imported from.
env_success_imports_only(imports, source_in_repo) == all_ok(imports)

env_success(imports, source_in_repo) == all_ok(imports) /\ source_in_repo

env_payload(repo_root, chk, virocon_file, virocon_version, source_in_repo) ==
    [success |-> env_success(chk.statuses, source_in_repo),
     python_version |-> pyenv.python_version,
     virocon_version |-> virocon_version,
     virocon_file |-> virocon_file,
     repo_root |-> repo_root,
     source_in_repo |-> source_in_repo,
     imports |-> chk.statuses]

\* A run() that always reports status 0.
env_exit_always_zero(payload) == 0

env_exit(payload) == IF payload.success THEN 0 ELSE 1

env_run(paths_file) ==
    LET cfg == load_yaml(paths_file) IN
    IF ~cfg.ok THEN cfg
    ELSE IF "repo_root" \notin DOMAIN cfg.val THEN Raise("KeyError", cfg.ev)
    ELSE
    LET repo_root == resolve(cfg.val.repo_root)
        chk == check_imports(module_names)
        ev == cfg.ev \o chk.ev
    IN  IF "virocon" \notin chk.imported
        THEN LET payload == env_payload(repo_root, chk, None, None, FALSE)
             IN  Return([payload |-> payload, exit_code |-> env_exit(payload)], ev)
        ELSE IF pyenv.virocon_file = None
        THEN Raise("TypeError", Append(ev, "getfile"))
        ELSE LET virocon_file == resolve(pyenv.virocon_file[1])
                 virocon_version == IF pyenv.virocon_version = None
                                    THEN "unknown" ELSE pyenv.virocon_version[1]
                 source_in_repo == repo_root \in parents(virocon_file)
                 payload == env_payload(repo_root, chk, Some(virocon_file),
                                        Some(virocon_version), source_in_repo)
             IN  Return([payload |-> payload, exit_code |-> env_exit(payload)],
                        Append(ev, "getfile"))

\* main(): the try/except around run(), then print and return.
env_main ==
    LET r == env_run("paths.yaml") IN
    IF r.ok THEN [payload |-> r.val.payload, exit_code |-> r.val.exit_code, ev |-> r.ev]
    ELSE [payload |-> [success |-> FALSE, error |-> r.exc], exit_code |-> 1, ev |-> r.ev]

(***************************************************************************)
(* Tables.  A CSV file that parses is a header and its data rows; equal    *)
(* consecutive rows are kept as one block with a count.  A row is a        *)
(* sequence of cells aligned with the header; a cell is empty (read as NaN *)
(* by pandas), text that is no number, or a number.                        *)
(***************************************************************************)
NA == [k |-> "na", v |-> 0]
Text == [k |-> "text", v |-> 0]
Num(n) == [k |-> "num", v |-> n]

Table(header, blocks) == [t |-> "table", header |-> header, blocks |-> blocks]
CsvInvalid == [t |-> "invalid"]

RECURSIVE len_blocks(_)
len_blocks(blocks) ==
    IF blocks = <<>> THEN 0 ELSE Head(blocks).count + len_blocks(Tail(blocks))

\* len(df)
len(df) == len_blocks(df.blocks)

columns(df) == {df.header[i] : i \in 1..Len(df.header)}

\* The first n rows.
RECURSIVE take_rows(_, _)
take_rows(blocks, n) ==
    IF blocks = <<>> \/ n <= 0 THEN <<>>
    ELSE IF Head(blocks).count <= n
         THEN <<Head(blocks)>> \o take_rows(Tail(blocks), n - Head(blocks).count)
         ELSE <<[Head(blocks) EXCEPT !.count = n]>>

\* pd.read_csv(path, nrows=nrows): nrows None reads every row.
read_rows(blocks, nrows) == IF nrows = None THEN blocks ELSE take_rows(blocks, nrows[1])

read_csv(path, nrows) ==
    IF fs[path].kind = "absent" THEN Raise("FileNotFoundError", <<"read_csv:" \o path>>)
    ELSE IF fs[path].kind = "dir" THEN Raise("IsADirectoryError", <<"read_csv:" \o path>>)
    ELSE IF fs[path].data.t # "table" THEN Raise("ParserError", <<"read_csv:" \o path>>)
    ELSE Return([header |-> fs[path].data.header,
                 blocks |-> read_rows(fs[path].data.blocks, nrows)],
                <<"read_csv:" \o path>>)

col_index(df, col) == CHOOSE i \in 1..Len(df.header) : df.header[i] = col

\* The number of rows of df whose cell in column col is of one of the kinds.
RECURSIVE count_kind(_, _, _)
count_kind(blocks, i, kinds) ==
    IF blocks = <<>> THEN 0
    ELSE (IF Head(blocks).row[i].k \in kinds THEN Head(blocks).count ELSE 0)
         + count_kind(Tail(blocks), i, kinds)

\* The numbers pd.to_numeric(raw, errors="coerce") leaves in the column.
numeric_values(df, col) ==
    {df.blocks[b].row[col_index(df, col)].v :
        b \in {c \in 1..Len(df.blocks) :
                  /\ df.blocks[c].count > 0
                  /\ df.blocks[c].row[col_index(df, col)].k = "num"}}

set_min(S) == CHOOSE x \in S : \A y \in S : x <= y
set_max(S) == CHOOSE x \in S : \A y \in S : x >= y

\* A float that is a ratio of two counts is kept as a fraction in lowest
\* terms; the mean of an empty Series is NaN.
RECURSIVE gcd(_, _)
gcd(a, b) == IF b = 0 THEN a ELSE gcd(b, a % b)

NaN == <<0, 0>>
Ratio(a, b) == <<a \div gcd(a, b), b \div gcd(a, b)>>

series_mean(true_count, n) == IF n = 0 THEN NaN ELSE Ratio(true_count, n)

(***************************************************************************)
(* check_data.py.  The column names of the source are written in ASCII:    *)
(* wind_speed_10m, sig_wave_height, peak_wave_period for the metocean      *)
(* series, current_speed_kn and current_dir_to for the current series.     *)
(***************************************************************************)
METOCEAN_REQUIRED == <<"valid_time", "wind_speed_10m", "sig_wave_height", "peak_wave_period">>
CURRENT_REQUIRED == <<"index", "current_speed_kn", "current_dir_to">>

QuickRows == 5000

\* Stops at the first missing column.
missing_columns_first_only(df, required) ==
    LET all == SelectSeq(required, LAMBDA col : col \notin columns(df))
    IN  IF all = <<>> THEN <<>> ELSE <<Head(all)>>

missing_columns(df, required) == SelectSeq(required, LAMBDA col : col \notin columns(df))

\* raw_na = raw.isna()
raw_na_count(df, col) == count_kind(df.blocks, col_index(df, col), {"na"})

\* na_rate taken from the coerced column, where text counts as missing too.
column_stats_coerced_rate(df, col) ==
    LET numeric == numeric_values(df, col) IN
    [na_count |-> raw_na_count(df, col),
     na_rate |-> series_mean(count_kind(df.blocks, col_index(df, col), {"na", "text"}), len(df)),
     non_numeric_count |-> count_kind(df.blocks, col_index(df, col), {"text"}),
     min |-> IF numeric = {} THEN None ELSE Some(set_min(numeric)),
     max |-> IF numeric = {} THEN None ELSE Some(set_max(numeric))]

column_stats(df, col) ==
    LET numeric == numeric_values(df, col) IN
    [na_count |-> raw_na_count(df, col),
     na_rate |-> series_mean(raw_na_count(df, col), len(df)),
     non_numeric_count |-> count_kind(df.blocks, col_index(df, col), {"text"}),
     min |-> IF numeric = {} THEN None ELSE Some(set_min(numeric)),
     max |-> IF numeric = {} THEN None ELSE Some(set_max(numeric))]

\* The dict out, in insertion order, as <<column, statistics>> pairs.
RECURSIVE numeric_stats(_, _)
numeric_stats(df, cols) ==
    IF cols = <<>> THEN <<>>
    ELSE <<<<Head(cols), column_stats(df, Head(cols))>>>> \o numeric_stats(df, Tail(cols))

\* The mode is ignored and every row is read.
data_nrows_unbounded(mode) == None

data_nrows(mode) == IF mode = "quick" THEN Some(QuickRows) ELSE None

\* The second test written as an elif: only the first missing file is listed.
data_missing_files_elif(metocean_path, current_path) ==
    IF ~is_file(metocean_path) THEN <<"metocean_csv not found: " \o metocean_path>>
    ELSE IF ~is_file(current_path) THEN <<"current_csv not found: " \o current_path>>
    ELSE <<>>

\* errors, after the two is_file() tests.
data_missing_files(metocean_path, current_path) ==
    (IF ~is_file(metocean_path) THEN <<"metocean_csv not found: " \o metocean_path>> ELSE <<>>)
    \o (IF ~is_file(current_path) THEN <<"current_csv not found: " \o current_path>> ELSE <<>>)

metocean_numeric_cols == SelectSeq(METOCEAN_REQUIRED, LAMBDA c : c # "valid_time")
current_numeric_cols == SelectSeq(CURRENT_REQUIRED, LAMBDA c : c # "index")

data_section(df, cols) ==
    [rows_read |-> len(df),
     columns |-> df.header,
     required_columns_ok |-> TRUE,
     numeric_stats |-> numeric_stats(df, cols)]

\* run(), from the reading of the two files on.
data_validate(metocean_path, current_path, mode, ev0) ==
    LET metocean_df == read_csv(metocean_path, data_nrows(mode)) IN
    IF ~metocean_df.ok THEN Raise(metocean_df.exc, ev0 \o metocean_df.ev)
    ELSE
    LET current_df == read_csv(current_path, data_nrows(mode))
        ev1 == ev0 \o metocean_df.ev \o current_df.ev
    IN
    IF ~current_df.ok THEN Raise(current_df.exc, ev1)
    ELSE
    LET metocean_missing == missing_columns(metocean_df.val, METOCEAN_REQUIRED)
        current_missing == missing_columns(current_df.val, CURRENT_REQUIRED)
        ev2 == ev1 \o <<"missing_columns:metocean_csv", "missing_columns:current_csv">>
    IN
    IF metocean_missing # <<>> \/ current_missing # <<>>
    THEN Return([payload |-> [success |-> FALSE,
                              mode |-> mode,
                              errors |-> <<"required columns missing">>,
                              missing_columns |-> [metocean_csv |-> metocean_missing,
                                                   current_csv |-> current_missing]],
                 exit_code |-> 1], ev2)
    ELSE Return([payload |-> [success |-> TRUE,
                              mode |-> mode,
                              paths |-> [metocean_csv |-> metocean_path,
                                         current_csv |-> current_path],
                              metocean |-> data_section(metocean_df.val, metocean_numeric_cols),
                              current |-> data_section(current_df.val, current_numeric_cols)],
                 exit_code |-> 0],
                ev2 \o <<"numeric_stats:metocean_csv", "numeric_stats:current_csv">>)

data_run(paths_file, mode) ==
    LET cfg == load_yaml(paths_file) IN
    IF ~cfg.ok THEN cfg
    ELSE IF "metocean_csv" \notin DOMAIN cfg.val \/ "current_csv" \notin DOMAIN cfg.val
    THEN Raise("KeyError", cfg.ev)
    ELSE
    LET metocean_path == cfg.val.metocean_csv
        current_path == cfg.val.current_csv
        errors == data_missing_files(metocean_path, current_path)
        ev == cfg.ev \o <<"is_file:" \o metocean_path, "is_file:" \o current_path>>
    IN
    IF errors # <<>>
    THEN Return([payload |-> [success |-> FALSE,
                              mode |-> mode,
                              errors |-> errors,
                              paths |-> [metocean_csv |-> metocean_path,
                                         current_csv |-> current_path]],
                 exit_code |-> 1], ev)
    ELSE data_validate(metocean_path, current_path, mode, ev)

data_mode(given) == IF "--quick" \in given THEN "quick" ELSE "full"

data_main ==
    LET mode == data_mode(argv)
        r == data_run("paths.yaml", mode)
    IN
    IF r.ok THEN [payload |-> r.val.payload, exit_code |-> r.val.exit_code, ev |-> r.ev]
    ELSE [payload |-> [success |-> FALSE, mode |-> mode, error |-> r.exc],
          exit_code |-> 1, ev |-> r.ev]

(***************************************************************************)
(* smoke_iform.py                                                          *)
(***************************************************************************)
PlotRows == 5000
ReturnPeriod == 50

\* The rows of a table one by one.
RECURSIVE rows_of(_)
rows_of(blocks) ==
    IF blocks = <<>> THEN <<>>
    ELSE [i \in 1..Head(blocks).count |-> Head(blocks).row] \o rows_of(Tail(blocks))

\* numpy's RandomState(seed).permutation(n), which DataFrame.sample draws its
\* rows from: a shuffle of 1..n driven by a generator that the seed alone
\* determines (a linear congruential generator stands for MT19937).
lcg(s) == (5 * s + 3) % 16

swap(p, i, j) == [p EXCEPT ![i] = p[j], ![j] = p[i]]

RECURSIVE shuffle(_, _, _)
shuffle(p, i, s) ==
    IF i <= 1 THEN p
    ELSE shuffle(swap(p, i, 1 + (lcg(s) % i)), i - 1, lcg(s))

permutation(n, seed) == shuffle([i \in 1..n |-> i], n, seed % 16)

\* DataFrame.sample(n=n, random_state=seed) over the index labels idx:
\* without replacement, the first n of the shuffled positions.
df_sample(idx, n, seed) ==
    [k \in 1..n |-> idx[permutation(Len(idx), seed)[k]]]

positive(cell) == cell.k = "num" /\ cell.v > 0

\* The filter written with >= 0.
clean_index_nonnegative(df, primary_var, secondary_var) ==
    LET rows == rows_of(df.blocks)
        keep(i) == /\ rows[i][col_index(df, primary_var)].k = "num"
                   /\ rows[i][col_index(df, primary_var)].v >= 0
                   /\ rows[i][col_index(df, secondary_var)].k = "num"
                   /\ rows[i][col_index(df, secondary_var)].v >= 0
    IN  SelectSeq([i \in 1..Len(rows) |-> i], keep)

\* to_numeric, dropna and the > 0 filter: the index labels that remain.
clean_index(df, primary_var, secondary_var) ==
    LET rows == rows_of(df.blocks)
        keep(i) == /\ positive(rows[i][col_index(df, primary_var)])
                   /\ positive(rows[i][col_index(df, secondary_var)])
    IN  SelectSeq([i \in 1..Len(rows) |-> i], keep)

\* The index labels after the cap: clean_df.sample(...) when it applies.
capped_index(idx, max_rows, random_seed) ==
    IF Len(idx) > max_rows THEN df_sample(idx, max_rows, random_seed) ELSE idx

\* The two columns of the chosen rows, as reset_index(drop=True) leaves them.
frame_of(df, idx, primary_var, secondary_var) ==
    LET rows == rows_of(df.blocks) IN
    [k \in 1..Len(idx) |-> <<rows[idx[k]][col_index(df, primary_var)].v,
                            rows[idx[k]][col_index(df, secondary_var)].v>>]

\* The test for an empty sample left out.
df_empty_never(idx) == FALSE

\* clean_df.empty
df_empty(idx) == idx = <<>>

prepare_data(csv_path, primary_var, secondary_var, max_rows, random_seed) ==
    LET raw == read_csv(csv_path, None) IN
    IF ~raw.ok THEN raw
    ELSE IF ~({primary_var, secondary_var} \subseteq columns(raw.val))
    THEN Raise("ValueError", raw.ev)
    ELSE
    LET raw_df == raw.val
        clean == clean_index(raw_df, primary_var, secondary_var)
    IN
    IF Len(clean) > max_rows /\ max_rows < 0
    THEN Raise("ValueError", raw.ev \o <<"sample">>)
    ELSE
    LET idx == capped_index(clean, max_rows, random_seed)
        ev == raw.ev \o (IF Len(clean) > max_rows THEN <<"sample">> ELSE <<>>)
    IN
    IF df_empty(idx)
    THEN Raise("ValueError", ev)
    ELSE Return([sample_df |-> frame_of(raw_df, idx, primary_var, secondary_var),
                 index |-> idx,
                 raw_rows |-> len(raw_df)], ev)

\* mkdir without exist_ok: an existing directory raises too.
mkdir_exclusive(path) ==
    IF fs[path].kind # "absent"
    THEN [ok |-> FALSE, exc |-> "FileExistsError", fs |-> fs]
    ELSE [ok |-> TRUE, fs |-> [fs EXCEPT ![path] = Dir]]

\* output_dir.mkdir(parents=True, exist_ok=True)
mkdir(path) ==
    IF fs[path].kind = "file"
    THEN [ok |-> FALSE, exc |-> "FileExistsError", fs |-> fs]
    ELSE [ok |-> TRUE, fs |-> [fs EXCEPT ![path] = Dir]]

RuntimeKeys ==
    {"smoke_primary_var", "smoke_secondary_var", "smoke_max_rows",
     "smoke_random_seed", "smoke_n_points", "state_duration_hours"}

\* run() up to the call of _prepare_data: the configuration and the directory.
smoke_config ==
    LET paths_cfg == load_yaml("paths.yaml") IN
    IF ~paths_cfg.ok THEN [ok |-> FALSE, exc |-> paths_cfg.exc, ev |-> paths_cfg.ev, fs |-> fs]
    ELSE
    LET runtime_cfg == load_yaml("runtime.yaml")
        ev1 == paths_cfg.ev \o runtime_cfg.ev
    IN
    IF ~runtime_cfg.ok THEN [ok |-> FALSE, exc |-> runtime_cfg.exc, ev |-> ev1, fs |-> fs]
    ELSE IF ~({"metocean_csv", "output_dir"} \subseteq DOMAIN paths_cfg.val)
    THEN [ok |-> FALSE, exc |-> "KeyError", ev |-> ev1, fs |-> fs]
    ELSE
    LET made == mkdir(paths_cfg.val.output_dir)
        ev2 == Append(ev1, "mkdir:" \o paths_cfg.val.output_dir)
    IN
    IF ~made.ok THEN [ok |-> FALSE, exc |-> made.exc, ev |-> ev2, fs |-> made.fs]
    ELSE IF ~(RuntimeKeys \subseteq DOMAIN runtime_cfg.val)
    THEN [ok |-> FALSE, exc |-> "KeyError", ev |-> ev2, fs |-> made.fs]
    ELSE [ok |-> TRUE, ev |-> ev2, fs |-> made.fs,
          val |-> [metocean_csv |-> paths_cfg.val.metocean_csv,
                   output_dir |-> paths_cfg.val.output_dir,
                   primary_var |-> runtime_cfg.val.smoke_primary_var,
                   secondary_var |-> runtime_cfg.val.smoke_secondary_var,
                   max_rows |-> runtime_cfg.val.smoke_max_rows,
                   random_seed |-> runtime_cfg.val.smoke_random_seed,
                   n_points |-> runtime_cfg.val.smoke_n_points,
                   state_duration_hours |-> runtime_cfg.val.state_duration_hours]]

\* calculate_alpha(state_duration_hours, 50), kept as its two arguments.
calculate_alpha(state_duration, return_period) ==
    [state_duration |-> state_duration, return_period |-> return_period]

\* IFORMContour(model, alpha, n_points).coordinates: n_points points of the
\* contour of the model fitted to data.
contour_coordinates(data, alpha, n_points) ==
    [fit |-> data, alpha |-> alpha, points |-> [i \in 1..n_points |-> i]]

coords_csv_path(output_dir) == output_dir \o "/iform_wind10_hs_coords.csv"
plot_png_path(output_dir) == output_dir \o "/iform_wind10_hs_plot.png"

\* pd.DataFrame(coordinates, columns=[...]).to_csv(coords_csv, index=False)
coords_file(coordinates, primary_var, secondary_var) ==
    File([t |-> "coords", header |-> <<primary_var, secondary_var>>, rows |-> coordinates])

\* _plot_contour: the scatter of at most 5000 sample rows and the contour line.
plot_rows(sample_df) ==
    IF Len(sample_df) > PlotRows
    THEN df_sample(sample_df, PlotRows, 42)
    ELSE sample_df

plot_file(sample_df, coordinates) ==
    File([t |-> "png", scatter |-> plot_rows(sample_df), line |-> coordinates])

\* contour_points taken from the sample instead of the coordinates.
smoke_payload_rows_as_points(l) ==
    [success |-> TRUE,
     sample |-> [raw_rows_read |-> l.raw_rows,
                 rows_used |-> Len(l.sample_df),
                 primary_var |-> l.primary_var,
                 secondary_var |-> l.secondary_var],
     alpha |-> l.alpha,
     contour_points |-> Len(l.sample_df),
     maxima |-> [of |-> l.coordinates],
     output |-> [coords_csv |-> coords_csv_path(l.output_dir),
                 plot_png |-> plot_png_path(l.output_dir)]]

smoke_payload(l) ==
    [success |-> TRUE,
     sample |-> [raw_rows_read |-> l.raw_rows,
                 rows_used |-> Len(l.sample_df),
                 primary_var |-> l.primary_var,
                 secondary_var |-> l.secondary_var],
     alpha |-> l.alpha,
     contour_points |-> Len(l.coordinates.points),
     maxima |-> [of |-> l.coordinates],
     output |-> [coords_csv |-> coords_csv_path(l.output_dir),
                 plot_png |-> plot_png_path(l.output_dir)]]

(***************************************************************************)
(* Inputs.                                                                 *)
(***************************************************************************)
RepoRoots == {<<"repo">>, <<"repo", "sub", "..">>, <<"site">>}

ViroconFiles ==
    {Some(<<"repo", "virocon", "__init__.py">>),
     Some(<<"repo", "..", "site", "virocon", "__init__.py">>),
     Some(<<"site", ".", "virocon", "__init__.py">>),
     None}

ModuleSet == {module_names[i] : i \in 1..Len(module_names)}

EmptyFs == [n \in FileNames |-> Absent]

EnvPathsDocs ==
    {File(YamlMap([repo_root |-> r])) : r \in RepoRoots}

EnvInit ==
    /\ tool = "check_env"
    /\ \/ /\ argv = {"--paths"}
          /\ pyenv \in [broken : SUBSET ModuleSet, virocon_file : ViroconFiles,
                        virocon_version : {Some("2.2.0")}, python_version : {"3.11"}]
          /\ \E doc \in EnvPathsDocs : fs = [EmptyFs EXCEPT !["paths.yaml"] = doc]
       \/ /\ argv \in {{"--paths"}, {}, {"--paths", "--quick"}}
          /\ pyenv \in [broken : {{}, {"numpy"}}, virocon_file : {Some(<<"repo", "virocon", "__init__.py">>)},
                        virocon_version : {None}, python_version : {"3.11"}]
          /\ \E doc \in {Absent, Dir, File(YamlInvalid), File(YamlScalar),
                         File(YamlMap([metocean_csv |-> "metocean.csv"])),
                         File(YamlMap([repo_root |-> <<"repo">>]))} :
                fs = [EmptyFs EXCEPT !["paths.yaml"] = doc]
    /\ lib = [fault |-> "none"]

\* Rows: the cells of a pattern, repeated along the header.
RowOf(header, pat) == [i \in 1..Len(header) |-> pat[((i - 1) % Len(pat)) + 1]]

RowPatterns == {<<Num(2)>>, <<NA, Num(3)>>, <<Text, Num(-1), NA>>}
BlockCounts == {1, QuickRows}

RECURSIVE SeqsUpTo(_, _)
SeqsUpTo(S, n) ==
    IF n = 0 THEN {<<>>}
    ELSE LET shorter == SeqsUpTo(S, n - 1)
         IN  shorter \cup {Append(q, x) : q \in {r \in shorter : Len(r) = n - 1}, x \in S}

BlocksFor(header, n) ==
    SeqsUpTo({[row |-> RowOf(header, pat), count |-> c] : pat \in RowPatterns, c \in BlockCounts}, n)

MetoceanComplete ==
    {METOCEAN_REQUIRED,
     <<"sig_wave_height", "extra", "valid_time", "peak_wave_period", "wind_speed_10m">>}
MetoceanIncomplete ==
    {<<"valid_time", "wind_speed_10m", "peak_wave_period">>, <<"sig_wave_height">>, <<"extra">>}
CurrentComplete ==
    {CURRENT_REQUIRED, <<"current_dir_to", "index", "note", "current_speed_kn">>}
CurrentIncomplete ==
    {<<"index", "current_speed_kn">>, <<"note">>}

FilesOver(complete, incomplete) ==
    UNION {{File(Table(h, b)) : b \in BlocksFor(h, MaxBlocks)} : h \in complete}
    \cup UNION {{File(Table(h, b)) : b \in BlocksFor(h, 1)} : h \in incomplete}
    \cup {Absent, Dir, File(CsvInvalid)}

FewFilesOver(complete, incomplete) ==
    {File(Table(h, <<>>)) : h \in complete \cup incomplete}
    \cup {File(Table(h, <<[row |-> RowOf(h, <<Num(1)>>), count |-> QuickRows + 1]>>)) : h \in complete}
    \cup {Absent}

DataPathsDoc == File(YamlMap([metocean_csv |-> "metocean.csv", current_csv |-> "current.csv"]))

GoodPyenv ==
    [broken |-> {}, virocon_file |-> Some(<<"repo", "virocon", "__init__.py">>),
     virocon_version |-> Some("2.2.0"), python_version |-> "3.11"]

DataInit ==
    /\ tool = "check_data"
    /\ \/ /\ argv \in {{"--paths", "--quick"}, {"--paths", "--full"}}
          /\ pyenv = GoodPyenv
          /\ \/ \E m \in FilesOver(MetoceanComplete, MetoceanIncomplete),
                   c \in FewFilesOver(CurrentComplete, CurrentIncomplete) :
                   fs = [EmptyFs EXCEPT !["paths.yaml"] = DataPathsDoc,
                                        !["metocean.csv"] = m, !["current.csv"] = c]
             \/ \E m \in FewFilesOver(MetoceanComplete, MetoceanIncomplete),
                   c \in FilesOver(CurrentComplete, CurrentIncomplete) :
                   fs = [EmptyFs EXCEPT !["paths.yaml"] = DataPathsDoc,
                                        !["metocean.csv"] = m, !["current.csv"] = c]
       \/ /\ argv \in {{"--paths", "--quick"}, {"--paths"}, {"--quick"},
                       {"--paths", "--quick", "--full"}, {"--paths", "--full", "--runtime"}}
          /\ pyenv \in {GoodPyenv, [GoodPyenv EXCEPT !.broken = {"pandas"}],
                        [GoodPyenv EXCEPT !.broken = {"virocon"}]}
          /\ \E doc \in {Absent, File(YamlInvalid), File(YamlScalar),
                         File(YamlMap([metocean_csv |-> "metocean.csv"])),
                         File(YamlMap([current_csv |-> "current.csv"])), DataPathsDoc} :
                fs = [EmptyFs EXCEPT !["paths.yaml"] = doc,
                         !["metocean.csv"] = File(Table(METOCEAN_REQUIRED, <<>>)),
                         !["current.csv"] = File(Table(CURRENT_REQUIRED, <<>>))]
    /\ lib = [fault |-> "none"]

SmokeHeader == <<"wind_speed_10m", "sig_wave_height">>

\* One-row blocks over <<wind_speed_10m, sig_wave_height>>: two rows that
\* survive cleaning and one for each way a row is dropped.
SmokeRowKinds ==
    {<<Num(2), Num(3)>>, <<Num(1), Num(4)>>, <<NA, Num(3)>>, <<Num(2), Text>>,
     <<Num(0), Num(3)>>, <<Num(2), Num(-1)>>}

SmokeTables ==
    {File(Table(SmokeHeader, b)) :
        b \in SeqsUpTo({[row |-> r, count |-> 1] : r \in SmokeRowKinds}, MaxRows)}

Caps == (-1)..MaxRows
Seeds == {0, 42}

SmokePathsDoc == File(YamlMap([metocean_csv |-> "metocean.csv", output_dir |-> "out"]))

RuntimeMap(cap, seed, n) ==
    [smoke_primary_var |-> "wind_speed_10m", smoke_secondary_var |-> "sig_wave_height",
     smoke_max_rows |-> cap, smoke_random_seed |-> seed, smoke_n_points |-> n,
     state_duration_hours |-> 1]

SmokeFixedTable ==
    File(Table(<<"valid_time", "sig_wave_height", "wind_speed_10m">>,
               <<[row |-> <<Text, Num(3), Num(2)>>, count |-> 2],
                 [row |-> <<Text, NA, Num(2)>>, count |-> 1],
                 [row |-> <<Text, Num(5), Num(7)>>, count |-> 1]>>))

SmokeNoValidTable ==
    File(Table(<<"wind_speed_10m", "sig_wave_height">>,
               <<[row |-> <<Num(0), Num(3)>>, count |-> 1],
                 [row |-> <<Text, NA>>, count |-> 2]>>))

StaleOutput == File([t |-> "stale"])

SmokeInit ==
    /\ tool = "smoke_iform"
    /\ \/ /\ argv = {"--paths", "--runtime"}
          /\ pyenv = GoodPyenv
          /\ lib = [fault |-> "none"]
          /\ \E m \in SmokeTables, cap \in Caps, seed \in Seeds :
                fs = [EmptyFs EXCEPT !["paths.yaml"] = SmokePathsDoc,
                                     !["runtime.yaml"] = File(YamlMap(RuntimeMap(cap, seed, 1))),
                                     !["metocean.csv"] = m]
       \/ /\ argv = {"--paths", "--runtime"}
          /\ pyenv = GoodPyenv
          /\ lib \in [fault : {"none", "fit", "contour", "to_csv", "savefig"}]
          /\ \E pdoc \in {SmokePathsDoc, Absent,
                          File(YamlMap([metocean_csv |-> "metocean.csv"])),
                          File(YamlMap([metocean_csv |-> "metocean.csv",
                                        output_dir |-> "metocean.csv"]))},
                rdoc \in {File(YamlMap(RuntimeMap(2, 42, n))) : n \in 1..MaxPoints}
                         \cup {File(YamlScalar),
                               File(YamlMap([smoke_primary_var |-> "wind_speed_10m"])),
                               File(YamlMap([RuntimeMap(2, 42, 1) EXCEPT
                                                !.smoke_secondary_var = "peak_wave_period"]))},
                m \in {SmokeFixedTable, SmokeNoValidTable, Absent, File(CsvInvalid)},
                out \in {<<Absent, Absent, Absent>>, <<Dir, Absent, Absent>>,
                         <<Dir, StaleOutput, StaleOutput>>} :
                fs = [EmptyFs EXCEPT !["paths.yaml"] = pdoc,
                                     !["runtime.yaml"] = rdoc,
                                     !["metocean.csv"] = m,
                                     !["out"] = out[1],
                                     ![coords_csv_path("out")] = out[2],
                                     ![plot_png_path("out")] = out[3]]
       \/ /\ argv \in {{"--paths"}, {"--runtime"}, {"--paths", "--runtime", "--quick"},
                       {"--paths", "--runtime"}}
          /\ pyenv \in {[GoodPyenv EXCEPT !.broken = {"virocon"}],
                        [GoodPyenv EXCEPT !.broken = {"scipy"}], GoodPyenv}
          /\ lib = [fault |-> "none"]
          /\ fs = [EmptyFs EXCEPT !["paths.yaml"] = SmokePathsDoc,
                                  !["runtime.yaml"] = File(YamlMap(RuntimeMap(1, 0, 1))),
                                  !["metocean.csv"] = SmokeFixedTable]

Init ==
    /\ \/ EnvInit
       \/ DataInit
       \/ SmokeInit
    /\ fs0 = fs
    /\ pc = "start"
    /\ trace = <<>>
    /\ stdout = <<>>
    /\ exit_code = None
    /\ locals = [step |-> "none"]
    /\ history = <<>>

(***************************************************************************)
(* Actions.                                                                *)
(***************************************************************************)
\* The interpreter executes the script's module-level imports; a failing one
\* ends the process with a traceback and status 1 before main() is called.
ScriptImports ==
    /\ pc = "start"
    /\ IF top_level_imports(tool) \cap pyenv.broken # {}
       THEN /\ pc' = "crashed"
            /\ exit_code' = Some(1)
       ELSE /\ pc' = "main"
            /\ exit_code' = exit_code
    /\ trace' = Append(trace, "module_imports")
    /\ UNCHANGED <<tool, argv, pyenv, fs0, fs, lib, stdout, locals, history>>

\* parse_args() rejects the command line: usage on stderr, status 2.
UsageError ==
    /\ pc = "main"
    /\ ~parse_args(tool, argv)
    /\ pc' = "usage_error"
    /\ exit_code' = Some(2)
    /\ trace' = Append(trace, "parse_args")
    /\ UNCHANGED <<tool, argv, pyenv, fs0, fs, lib, stdout, locals, history>>

CheckEnvMain ==
    /\ pc = "main"
    /\ tool = "check_env"
    /\ parse_args(tool, argv)
    /\ LET m == env_main IN
       /\ stdout' = Append(stdout, m.payload)
       /\ exit_code' = Some(m.exit_code)
       /\ trace' = trace \o <<"parse_args">> \o m.ev \o <<"print">>
    /\ pc' = "exited"
    /\ UNCHANGED <<tool, argv, pyenv, fs0, fs, lib, locals, history>>

CheckDataMain ==
    /\ pc = "main"
    /\ tool = "check_data"
    /\ parse_args(tool, argv)
    /\ LET m == data_main IN
       /\ stdout' = Append(stdout, m.payload)
       /\ exit_code' = Some(m.exit_code)
       /\ trace' = trace \o <<"parse_args">> \o m.ev \o <<"print">>
    /\ pc' = "exited"
    /\ UNCHANGED <<tool, argv, pyenv, fs0, fs, lib, locals, history>>

\* main() of smoke_iform prints the payload and returns: the except branch
\* when a step of run() raised, the returned payload otherwise.
SmokeExit(payload, code, ev) ==
    /\ stdout' = Append(stdout, payload)
    /\ exit_code' = Some(code)
    /\ trace' = trace \o ev \o <<"print">>
    /\ pc' = "exited"

SmokeFailure(exc, ev) == SmokeExit([success |-> FALSE, error |-> exc], 1, ev)

SmokeStep(next_pc, ev) ==
    /\ pc' = next_pc
    /\ trace' = trace \o ev
    /\ UNCHANGED <<stdout, exit_code>>

\* parse_args, the two configuration files, the output directory, the
\* runtime parameters.
SmokeConfig ==
    /\ pc = "main"
    /\ tool = "smoke_iform"
    /\ parse_args(tool, argv)
    /\ LET r == smoke_config IN
       /\ fs' = r.fs
       /\ IF r.ok
          THEN /\ locals' = r.val
               /\ SmokeStep("prepare", <<"parse_args">> \o r.ev)
          ELSE /\ locals' = locals
               /\ SmokeFailure(r.exc, <<"parse_args">> \o r.ev)
    /\ UNCHANGED <<tool, argv, pyenv, fs0, lib, history>>

SmokePrepare ==
    /\ pc = "prepare"
    /\ LET r == prepare_data(locals.metocean_csv, locals.primary_var, locals.secondary_var,
                             locals.max_rows, locals.random_seed)
       IN  IF r.ok
           THEN /\ locals' = [l \in {"sample_df", "index", "raw_rows"} \cup DOMAIN locals |->
                                 IF l \in DOMAIN locals THEN locals[l] ELSE r.val[l]]
                /\ SmokeStep("fit", r.ev \o <<"prepare_data">>)
           ELSE /\ locals' = locals
                /\ SmokeFailure(r.exc, r.ev)
    /\ UNCHANGED <<tool, argv, pyenv, fs0, fs, lib, history>>

\* _build_model, model.fit, calculate_alpha, IFORMContour.
SmokeFit ==
    /\ pc = "fit"
    /\ IF lib.fault = "fit"
       THEN /\ locals' = locals
            /\ SmokeFailure("FitError", <<"fit">>)
       ELSE IF lib.fault = "contour"
       THEN /\ locals' = locals
            /\ SmokeFailure("ContourError", <<"fit", "contour">>)
       ELSE LET alpha == calculate_alpha(locals.state_duration_hours, ReturnPeriod)
                coordinates == contour_coordinates(locals.sample_df, alpha, locals.n_points)
            IN  /\ locals' = [l \in {"alpha", "coordinates"} \cup DOMAIN locals |->
                                 IF l = "alpha" THEN alpha
                                 ELSE IF l = "coordinates" THEN coordinates
                                 ELSE locals[l]]
                /\ SmokeStep("to_csv", <<"fit", "contour">>)
    /\ UNCHANGED <<tool, argv, pyenv, fs0, fs, lib, history>>

SmokeWriteCsv ==
    /\ pc = "to_csv"
    /\ IF lib.fault = "to_csv" \/ fs[locals.output_dir].kind # "dir"
       THEN /\ fs' = fs
            /\ SmokeFailure("OSError", <<"to_csv">>)
       ELSE /\ fs' = [fs EXCEPT ![coords_csv_path(locals.output_dir)] =
                         coords_file(locals.coordinates, locals.primary_var, locals.secondary_var)]
            /\ SmokeStep("plot", <<"to_csv">>)
    /\ UNCHANGED <<tool, argv, pyenv, fs0, lib, locals, history>>

SmokePlot ==
    /\ pc = "plot"
    /\ IF lib.fault = "savefig" \/ fs[locals.output_dir].kind # "dir"
       THEN /\ fs' = fs
            /\ SmokeFailure("OSError", <<"savefig">>)
       ELSE /\ fs' = [fs EXCEPT ![plot_png_path(locals.output_dir)] =
                         plot_file(locals.sample_df, locals.coordinates)]
            /\ SmokeStep("return", <<"savefig">>)
    /\ UNCHANGED <<tool, argv, pyenv, fs0, lib, locals, history>>

\* The payload of run(), printed by main().
SmokeReturn ==
    /\ pc = "return"
    /\ SmokeExit(smoke_payload(locals), 0, <<>>)
    /\ UNCHANGED <<tool, argv, pyenv, fs0, fs, lib, locals, history>>

\* The same command is run again on what the previous invocation left behind.
Rerun ==
    /\ pc \in {"exited", "crashed", "usage_error"}
    /\ Len(history) + 1 < MaxRuns
    /\ history' = Append(history, [pc |-> pc, stdout |-> stdout, exit_code |-> exit_code, fs |-> fs])
    /\ pc' = "start"
    /\ trace' = <<>>
    /\ stdout' = <<>>
    /\ exit_code' = None
    /\ locals' = [step |-> "none"]
    /\ fs0' = fs
    /\ UNCHANGED <<tool, argv, pyenv, fs, lib>>

Next ==
    \/ ScriptImports
    \/ UsageError
    \/ CheckEnvMain
    \/ CheckDataMain
    \/ SmokeConfig
    \/ SmokePrepare
    \/ SmokeFit
    \/ SmokeWriteCsv
    \/ SmokePlot
    \/ SmokeReturn
    \/ Rerun

Spec == Init /\ [][Next]_vars

(***************************************************************************)
(* Properties.                                                             *)
(***************************************************************************)
Exited == pc = "exited"
Payload == stdout[1]
Events == {trace[i] : i \in 1..Len(trace)}

\* C1, as stated: every invocation of main() prints exactly one payload and
\* returns 0 exactly when the payload's success is true, 1 on every failure.
C1_EveryInvocationPrintsOnePayload ==
    pc \in {"exited", "usage_error"} =>
        /\ Len(stdout) = 1
        /\ exit_code \in {Some(0), Some(1)}
        /\ (exit_code = Some(0)) <=> Payload.success

\* C1, amended: every invocation of main() whose command line parse_args()
\* accepts prints exactly one payload, after which it returns 0 if the
\* payload's success is true and 1 otherwise; a failure inside run() (here: a
\* configuration file that does not load) ends with success false and 1.  A
\* rejected command line ends inside parse_args() with status 2 and no payload.
C1_AcceptedInvocationPrintsOnePayload ==
    /\ pc = "exited" =>
          /\ Len(stdout) = 1
          /\ exit_code \in {Some(0), Some(1)}
          /\ (exit_code = Some(0)) <=> Payload.success
          /\ ("error" \in DOMAIN Payload \/ ~load_yaml("paths.yaml").ok) =>
                (~Payload.success /\ exit_code = Some(1))
          /\ trace[Len(trace)] = "print"
    /\ pc = "usage_error" => (stdout = <<>> /\ exit_code = Some(2))
    /\ pc \notin {"exited", "usage_error"} => stdout = <<>>

C1_Witness ==
    /\ Exited
    /\ fs["paths.yaml"] = File(YamlScalar)
    /\ ~Payload.success
    /\ exit_code = Some(1)

DataConfigured == tool = "check_data" /\ fs["paths.yaml"] = DataPathsDoc /\ Exited

MissingEntry(key) == key \o " not found: " \o DataPathsDoc.data.m[key]

MissingKeys == {key \in {"metocean_csv", "current_csv"} : fs[DataPathsDoc.data.m[key]].kind # "file"}

\* C2: in check_data's run(), when at least one of the two CSV files is
\* missing, the result is success false with exit code 1, errors has exactly
\* one entry per missing file, the payload has no column information, and
\* nothing was read or validated.
C2_MissingFilesReported ==
    (DataConfigured /\ MissingKeys # {}) =>
        /\ ~Payload.success
        /\ exit_code = Some(1)
        /\ "errors" \in DOMAIN Payload
        /\ Len(Payload.errors) = Cardinality(MissingKeys)
        /\ {Payload.errors[i] : i \in 1..Len(Payload.errors)} = {MissingEntry(k) : k \in MissingKeys}
        /\ DOMAIN Payload \cap {"missing_columns", "metocean", "current"} = {}
        /\ Events \cap {"read_csv:metocean.csv", "read_csv:current.csv",
                        "missing_columns:metocean_csv", "missing_columns:current_csv",
                        "numeric_stats:metocean_csv", "numeric_stats:current_csv"} = {}

C2_Witness ==
    /\ DataConfigured
    /\ MissingKeys = {"metocean_csv", "current_csv"}
    /\ Len(Payload.errors) = 2

BothTables ==
    /\ DataConfigured
    /\ \A n \in {"metocean.csv", "current.csv"} :
          fs[n].kind = "file" /\ fs[n].data.t = "table"

HeaderSet(n) == {fs[n].data.header[i] : i \in 1..Len(fs[n].data.header)}

Absentees(n, required) == {c \in {required[i] : i \in 1..Len(required)} : c \notin HeaderSet(n)}

Position(seq, x) == CHOOSE i \in 1..Len(seq) : seq[i] = x

\* sub lists exactly the members of S, each once, in the order of required.
ListsInOrder(sub, S, required) ==
    /\ {sub[i] : i \in 1..Len(sub)} = S
    /\ \A i, j \in 1..Len(sub) : i < j => Position(required, sub[i]) < Position(required, sub[j])

\* C3: in check_data's run(), when both files are read and a required column
\* is absent from either, the result is success false with exit code 1,
\* missing_columns of each dataset is exactly its required columns that are
\* not in its header, in the order of the required list, and no numeric
\* statistics are computed or reported.
C3_MissingColumnsReported ==
    (BothTables /\ (Absentees("metocean.csv", METOCEAN_REQUIRED) # {}
                    \/ Absentees("current.csv", CURRENT_REQUIRED) # {})) =>
        /\ ~Payload.success
        /\ exit_code = Some(1)
        /\ "missing_columns" \in DOMAIN Payload
        /\ ListsInOrder(Payload.missing_columns.metocean_csv,
                        Absentees("metocean.csv", METOCEAN_REQUIRED), METOCEAN_REQUIRED)
        /\ ListsInOrder(Payload.missing_columns.current_csv,
                        Absentees("current.csv", CURRENT_REQUIRED), CURRENT_REQUIRED)
        /\ DOMAIN Payload \cap {"metocean", "current"} = {}
        /\ Events \cap {"numeric_stats:metocean_csv", "numeric_stats:current_csv"} = {}

C3_Witness ==
    /\ BothTables
    /\ Cardinality(Absentees("metocean.csv", METOCEAN_REQUIRED)) = 3
    /\ Absentees("current.csv", CURRENT_REQUIRED) = {}
    /\ Payload.missing_columns.current_csv = <<>>
    /\ Len(Payload.missing_columns.metocean_csv) = 3

EnvConfigured ==
    /\ tool = "check_env"
    /\ Exited
    /\ fs["paths.yaml"].kind = "file"
    /\ fs["paths.yaml"].data.t = "map"
    /\ "repo_root" \in DOMAIN fs["paths.yaml"].data.m

AllImported == \A i \in 1..Len(module_names) : module_names[i] \notin pyenv.broken

\* p lies under root: root is a proper prefix of p.
Under(p, root) == Len(root) < Len(p) /\ \A i \in 1..Len(root) : p[i] = root[i]

ViroconUnderRoot ==
    /\ pyenv.virocon_file # None
    /\ Under(resolve(pyenv.virocon_file[1]), resolve(fs["paths.yaml"].data.m.repo_root))

\* C4: in check_env's run(), success is true only if every listed module
\* imported and the resolved file of virocon lies under the resolved
\* repo_root; if a module fails to import or the file is not under the root,
\* success is false and the exit code is 1.
C4_SuccessNeedsImportsAndLocation ==
    EnvConfigured =>
        /\ Payload.success => (AllImported /\ ViroconUnderRoot)
        /\ (~AllImported \/ ~ViroconUnderRoot) => (~Payload.success /\ exit_code = Some(1))

C4_Witness ==
    /\ EnvConfigured
    /\ AllImported
    /\ pyenv.virocon_file # None
    /\ ~ViroconUnderRoot
    /\ ~Payload.success
    /\ exit_code = Some(1)

DataSections ==
    {[key |-> "metocean", file |-> "metocean.csv", required |-> METOCEAN_REQUIRED,
      label |-> "valid_time"],
     [key |-> "current", file |-> "current.csv", required |-> CURRENT_REQUIRED,
      label |-> "index"]}

DataComplete ==
    /\ BothTables
    /\ \A s \in DataSections : Absentees(s.file, s.required) = {}

StatsOf(s) == Payload[s.key].numeric_stats

ExactlyNumericColumns(s) ==
    /\ {StatsOf(s)[i][1] : i \in 1..Len(StatsOf(s))}
          = {s.required[i] : i \in 1..Len(s.required)} \ {s.label}
    /\ Len(StatsOf(s)) = Len(s.required) - 1

\* rate is the number count / rows.
IsQuotient(rate, count, rows) == rate[2] > 0 /\ rate[1] * rows = count * rate[2]

\* C5, as stated: in check_data's run(), when both files are read and every
\* required column is present, a file with no data rows included,
\* numeric_stats has entries for exactly the declared numeric columns and
\* na_rate of each is na_count divided by the number of rows read.
C5_RateIsCountOverRows ==
    DataComplete =>
        /\ Payload.success
        /\ \A s \in DataSections :
              /\ ExactlyNumericColumns(s)
              /\ \A i \in 1..Len(StatsOf(s)) :
                    IsQuotient(StatsOf(s)[i][2].na_rate, StatsOf(s)[i][2].na_count,
                               Payload[s.key].rows_read)

\* C5, amended: numeric_stats has entries for exactly the declared numeric
\* columns; when at least one row was read, na_rate is na_count divided by
\* the number of rows read; when no row was read, na_rate is NaN.
C5_RateIsCountOverRowsOrNaN ==
    DataComplete =>
        /\ Payload.success
        /\ exit_code = Some(0)
        /\ \A s \in DataSections :
              /\ ExactlyNumericColumns(s)
              /\ \A i \in 1..Len(StatsOf(s)) :
                    IF Payload[s.key].rows_read = 0
                    THEN StatsOf(s)[i][2].na_rate = NaN /\ StatsOf(s)[i][2].na_count = 0
                    ELSE IsQuotient(StatsOf(s)[i][2].na_rate, StatsOf(s)[i][2].na_count,
                                    Payload[s.key].rows_read)

C5_Witness ==
    /\ DataComplete
    /\ \E i \in 1..Len(Payload.metocean.numeric_stats) :
          LET st == Payload.metocean.numeric_stats[i][2] IN
          /\ 0 < st.na_count
          /\ st.na_count < Payload.metocean.rows_read
          /\ st.non_numeric_count > 0
          /\ st.na_rate = <<1, 2>>
    /\ Payload.current.rows_read = 0

Min(a, b) == IF a <= b THEN a ELSE b

FileRows(n) == len_blocks(fs[n].data.blocks)

\* C6: in a successful report of check_data, rows_read of a dataset of N data
\* rows is min(N, 5000) in quick mode and N in full mode, and mode is the
\* mode requested on the command line.
C6_RowsReadByMode ==
    (DataConfigured /\ Payload.success) =>
        /\ Payload.mode = (IF "--quick" \in argv THEN "quick" ELSE "full")
        /\ \A s \in DataSections :
              Payload[s.key].rows_read =
                 IF "--quick" \in argv THEN Min(FileRows(s.file), QuickRows)
                 ELSE FileRows(s.file)

C6_Witness ==
    /\ DataConfigured
    /\ Payload.success
    /\ "--quick" \in argv
    /\ FileRows("metocean.csv") > QuickRows
    /\ Payload.metocean.rows_read = QuickRows
    /\ Payload.mode = "quick"

SmokeRuntime == fs["runtime.yaml"].data.m

SmokeInput ==
    /\ tool = "smoke_iform"
    /\ fs["paths.yaml"] = SmokePathsDoc
    /\ fs["runtime.yaml"].kind = "file"
    /\ fs["runtime.yaml"].data.t = "map"
    /\ RuntimeKeys \subseteq DOMAIN SmokeRuntime
    /\ fs["metocean.csv"].kind = "file"
    /\ fs["metocean.csv"].data.t = "table"
    /\ {SmokeRuntime.smoke_primary_var, SmokeRuntime.smoke_secondary_var}
          \subseteq HeaderSet("metocean.csv")

InputRows == rows_of(fs["metocean.csv"].data.blocks)

InputCell(i, var) == InputRows[i][Position(fs["metocean.csv"].data.header, var)]

Survives(i) ==
    \A var \in {SmokeRuntime.smoke_primary_var, SmokeRuntime.smoke_secondary_var} :
        InputCell(i, var).k = "num" /\ InputCell(i, var).v > 0

Survivors == {i \in 1..Len(InputRows) : Survives(i)}

Prepared == "prepare_data" \in Events

\* C7, as stated: in _prepare_data, for every table and every cap (a number
\* of rows, so at least 0) where at least one row survives cleaning, a sample
\* is returned whose number of rows is min(rows surviving, cap).
C7_SampleForEveryCap ==
    (SmokeInput /\ Exited /\ Survivors # {} /\ SmokeRuntime.smoke_max_rows >= 0) =>
        /\ Prepared
        /\ Len(locals.sample_df) = Min(Cardinality(Survivors), SmokeRuntime.smoke_max_rows)

\* C7, amended: for every table and every cap of at least 1 where at least
\* one row survives cleaning, a sample is returned; a returned sample holds
\* only rows of the input whose two columns are numbers greater than 0, uses
\* no input row twice, has min(rows surviving, cap) rows, and raw_rows is the
\* number of rows of the file.
C7_SampleOfSurvivors ==
    SmokeInput =>
        /\ (Exited /\ Survivors # {} /\ SmokeRuntime.smoke_max_rows >= 1) => Prepared
        /\ Prepared =>
              /\ \A k \in 1..Len(locals.index) : locals.index[k] \in Survivors
              /\ \A j, k \in 1..Len(locals.index) : j # k => locals.index[j] # locals.index[k]
              /\ Len(locals.index) = Min(Cardinality(Survivors), SmokeRuntime.smoke_max_rows)
              /\ Len(locals.sample_df) = Len(locals.index)
              /\ \A k \in 1..Len(locals.index) :
                    locals.sample_df[k] =
                       <<InputCell(locals.index[k], SmokeRuntime.smoke_primary_var).v,
                         InputCell(locals.index[k], SmokeRuntime.smoke_secondary_var).v>>
              /\ locals.raw_rows = Len(InputRows)

C7_Witness ==
    /\ SmokeInput
    /\ Prepared
    /\ "sample" \in Events
    /\ Cardinality(Survivors) = 3
    /\ SmokeRuntime.smoke_max_rows = 2
    /\ Len(locals.index) = 2
    /\ locals.index[1] > locals.index[2]

\* C8: in smoke_iform, when no row remains after cleaning, the run fails with
\* a data error reported as success false and exit code 1, before the model is
\* fitted and before either output file is written.
C8_NoValidRowsFailsEarly ==
    (SmokeInput /\ Survivors = {}) =>
        /\ pc \notin {"fit", "to_csv", "plot", "return"}
        /\ Events \cap {"fit", "contour", "to_csv", "savefig"} = {}
        /\ fs[coords_csv_path("out")] = fs0[coords_csv_path("out")]
        /\ fs[plot_png_path("out")] = fs0[plot_png_path("out")]
        /\ Exited => /\ Payload = [success |-> FALSE, error |-> "ValueError"]
                     /\ exit_code = Some(1)

C8_Witness ==
    /\ SmokeInput
    /\ Survivors = {}
    /\ Len(InputRows) = 3
    /\ Exited
    /\ ~Payload.success
    /\ fs[coords_csv_path("out")] = StaleOutput

Ended == pc \in {"exited", "crashed", "usage_error"}

\* C9: a utility run twice on the same input files and configuration prints
\* the same payload and returns the same exit code both times, and the second
\* smoke run leaves the two output files with the content the first run left.
C9_SecondRunEqualsFirst ==
    (Ended /\ history # <<>>) =>
        /\ pc = history[1].pc
        /\ stdout = history[1].stdout
        /\ exit_code = history[1].exit_code
        /\ fs[coords_csv_path("out")] = history[1].fs[coords_csv_path("out")]
        /\ fs[plot_png_path("out")] = history[1].fs[plot_png_path("out")]

C9_Witness ==
    /\ Exited
    /\ history # <<>>
    /\ tool = "smoke_iform"
    /\ Payload.success
    /\ "sample" \in Events
    /\ Payload.sample.rows_used = 2
    /\ history[1].stdout = stdout
    /\ fs[coords_csv_path("out")].data.t = "coords"

FirstAt(ev) == CHOOSE i \in 1..Len(trace) : trace[i] = ev /\ \A j \in 1..(i - 1) : trace[j] # ev

OutputLeaves == {"iform_wind10_hs_coords.csv", "iform_wind10_hs_plot.png"}

InDirectory(path, dir) == \E leaf \in OutputLeaves : path = dir \o "/" \o leaf

\* C10: when smoke_iform returns success true with exit code 0, the output
\* directory exists, the two files the payload names exist inside it, the
\* coordinates CSV was written before the plot image, and contour_points is
\* the number of coordinate pairs written.
C10_OutputsOfSuccess ==
    /\ (tool = "smoke_iform" /\ Exited /\ Payload.success) =>
          /\ exit_code = Some(0)
          /\ fs[fs["paths.yaml"].data.m.output_dir] = Dir
          /\ Payload.output.coords_csv # Payload.output.plot_png
          /\ \A f \in {Payload.output.coords_csv, Payload.output.plot_png} :
                /\ InDirectory(f, fs["paths.yaml"].data.m.output_dir)
                /\ fs[f].kind = "file"
          /\ fs[Payload.output.coords_csv].data.t = "coords"
          /\ fs[Payload.output.plot_png].data.t = "png"
          /\ {"to_csv", "savefig"} \subseteq Events
          /\ FirstAt("to_csv") < FirstAt("savefig")
          /\ Payload.contour_points = Len(fs[Payload.output.coords_csv].data.rows.points)
    /\ (tool = "smoke_iform" /\ "savefig" \in Events) => "to_csv" \in Events
    /\ (tool = "smoke_iform" /\ pc = "plot") =>
          fs[plot_png_path(locals.output_dir)] = fs0[plot_png_path(locals.output_dir)]

C10_Witness ==
    /\ tool = "smoke_iform"
    /\ Exited
    /\ Payload.success
    /\ exit_code = Some(0)
    /\ fs0["out"] = Absent
    /\ fs["out"] = Dir
    /\ Payload.contour_points = 1
    /\ Payload.sample.rows_used = 2

EnvInput ==
    /\ tool = "check_env"
    /\ parse_args(tool, argv)
    /\ fs["paths.yaml"].kind = "file"
    /\ fs["paths.yaml"].data.t = "map"
    /\ "repo_root" \in DOMAIN fs["paths.yaml"].data.m
    /\ (pyenv.virocon_file # None \/ "virocon" \in pyenv.broken)

ImportEvents == SelectSeq(trace, LAMBDA e : e \in {"import:" \o module_names[i] : i \in 1..Len(module_names)})

\* The report of a run that was not aborted: one entry per listed module, in
\* the order of the list, each module attempted in that order, ok true for a
\* module that imports, ok false with an error for one that does not; with
\* virocon among the failures, no file, no version and source_in_repo false.
ImportsReported ==
    /\ Exited
    /\ "imports" \in DOMAIN Payload
    /\ Len(Payload.imports) = Len(module_names)
    /\ ImportEvents = [i \in 1..Len(module_names) |-> "import:" \o module_names[i]]
    /\ \A i \in 1..Len(module_names) :
          /\ Payload.imports[i][1] = module_names[i]
          /\ Payload.imports[i][2].ok = (module_names[i] \notin pyenv.broken)
          /\ (module_names[i] \in pyenv.broken) <=> ("error" \in DOMAIN Payload.imports[i][2])
    /\ "virocon" \in pyenv.broken =>
          /\ Payload.virocon_file = None
          /\ Payload.virocon_version = None
          /\ Payload.source_in_repo = FALSE

\* C11: in check_env, an import failure of any module does not abort the
\* run: for every subset of the seven listed modules that fails to import,
\* the process ends with a report that has one entry per listed module.
C11_ImportFailureNeverAborts ==
    (EnvInput /\ Ended) => ImportsReported

\* C11, for the six modules that check_env.py does not itself import at
\* module level: whichever of them fail, the report is complete.
C11_ImportFailureOfOthersReported ==
    (EnvInput /\ Ended /\ "yaml" \notin pyenv.broken) => ImportsReported

C11_OthersWitness ==
    /\ EnvInput
    /\ Exited
    /\ pyenv.broken = {"virocon", "scipy", "matplotlib"}
    /\ Payload.virocon_file = None

====
